---- MODULE Spec2Model ----
(***************************************************************************)
(* Model of okta_aws_login.py: the session cache (write_sid_file,          *)
(* get_sid_from_file), the two IdP login paths, the extraction and         *)
(* decoding of the SAML assertion, the STS exchange, the credentials file  *)
(* writer and the orchestration in main().                                 *)
(*                                                                         *)
(* Python str values are TLA+ strings; Python's None is the string "None", *)
(* which is never used as a real value.  A file's content is the text a    *)
(* text-mode read of it yields.  One behaviour is a sequence of            *)
(* invocations of the tool (runs) that share the two files on disk.        *)
(***************************************************************************)
EXTENDS Integers, Sequences, FiniteSets, TLC

\* ---- bounds -------------------------------------------------------------
\* number of consecutive invocations of the tool in one behaviour
MaxRuns == 2

\* number of invocations running at the same time on one credentials file
NumInvocations == 2

\* ---- program constants ----------------------------------------------------
\* get_sid_from_file: if len(sid) == 25
SidLen == 25

None == "None"

\* os.open(..., mode=0o600): the permission bits requested on creation
Mode600 == {"ur", "uw"}
Mode644 == {"ur", "uw", "gr", "or"}
OwnerBits == {"ur", "uw", "ux"}
\* umasks the process may run under (022 and 077)
Umasks == {{"gw", "ow"}, {"gr", "gw", "gx", "or", "ow", "ox"}}

region == "us-west-2"
output_format == "json"

\* ---- strings ------------------------------------------------------------
RECURSIVE Rep(_, _)
Rep(c, n) == IF n = 0 THEN "" ELSE c \o Rep(c, n - 1)

\* s.split(sep) for a one-character separator, as a sequence of strings
RECURSIVE SplitFrom(_, _, _, _)
SplitFrom(s, sep, i, cur) ==
    IF i > Len(s) THEN <<cur>>
    ELSE IF SubSeq(s, i, i) = sep
         THEN <<cur>> \o SplitFrom(s, sep, i + 1, "")
         ELSE SplitFrom(s, sep, i + 1, cur \o SubSeq(s, i, i))

Split(s, sep) == SplitFrom(s, sep, 1, "")

UpperCase == "ABCDEFGHIJKLMNOPQRSTUVWXYZ"
LowerCase == "abcdefghijklmnopqrstuvwxyz"

LowerChar(c) ==
    IF \E i \in 1..Len(UpperCase) : SubSeq(UpperCase, i, i) = c
    THEN LET i == CHOOSE j \in 1..Len(UpperCase) : SubSeq(UpperCase, j, j) = c
         IN  SubSeq(LowerCase, i, i)
    ELSE c

\* name.lower()
RECURSIVE Lower(_)
Lower(s) == IF s = "" THEN ""
            ELSE LowerChar(SubSeq(s, 1, 1)) \o Lower(SubSeq(s, 2, Len(s)))

\* sub in s
Contains(sub, s) ==
    \E i \in 1..(Len(s) - Len(sub) + 1) : SubSeq(s, i, i + Len(sub) - 1) = sub

\* ---- the session cache file ---------------------------------------------
NoFile == [exists |-> FALSE, content |-> "", perms |-> {}]

\* os.open(sid_file, O_WRONLY|O_CREAT, mode=0o600); os.write; os.close.
\* O_CREAT applies mode & ~umask only when the file is created; without
\* O_TRUNC the bytes of an existing file beyond len(sid) stay in place.
write_sid_file(file, sid, umask) ==
    IF file.exists
    THEN [exists |-> TRUE,
          content |-> IF Len(file.content) > Len(sid)
                      THEN sid \o SubSeq(file.content, Len(sid) + 1,
                                         Len(file.content))
                      ELSE sid,
          perms |-> file.perms]
    ELSE [exists |-> TRUE, content |-> sid, perms |-> Mode600 \ umask]

\* faulty variant: the length test accepts longer content
get_sid_from_file_AtLeast(file) ==
    IF file.exists /\ Len(file.content) >= SidLen THEN file.content ELSE None

\* faulty variant: the length test is missing
get_sid_from_file_NoLengthCheck(file) ==
    IF file.exists THEN file.content ELSE None

\* os.path.isfile, read(), len(sid) == 25; falls off the end (None) otherwise
get_sid_from_file(file) ==
    IF file.exists
    THEN IF Len(file.content) = SidLen THEN file.content ELSE None
    ELSE None

\* ---- HTML pages and the SAML assertion ----------------------------------
\* An input tag is [name, value]; an attribute the tag does not carry is None.
Tag(n, v) == [name |-> n, value |-> v]

\* inputtag.get(attr, default)
Get(v, default) == IF v = None THEN default ELSE v

\* faulty variant: only the first input tag is inspected
get_saml_assertion_FirstTagOnly(inputs) ==
    IF Len(inputs) > 0 /\ inputs[1].name = "SAMLResponse"
    THEN inputs[1].value ELSE None

\* for inputtag in soup.find_all('input'):
\*     if inputtag.get('name') == 'SAMLResponse': return inputtag.get('value')
get_saml_assertion(inputs) ==
    LET hits == {i \in 1..Len(inputs) : inputs[i].name = "SAMLResponse"}
    IN  IF hits = {} THEN None
        ELSE inputs[CHOOSE i \in hits : \A j \in hits : i <= j].value

\* The texts of the AttributeValue elements of the Role attribute(s) of the
\* XML that base64.b64decode(assertion) parses to, in document order.
RolePair1 == "arn:aws:iam::111:saml-provider/X,arn:aws:iam::111:role/Y"
RolePair2 == "arn:aws:iam::111:saml-provider/X,arn:aws:iam::111:role/Z"

RoleValues(a) ==
    CASE a = "A_one"     -> <<RolePair1>>
      [] a = "A_two"     -> <<RolePair1, RolePair2>>
      [] a = "A_norole"  -> <<>>
      [] a = "A_single"  -> <<"arn:aws:iam::111:role/Y">>
      [] a = "A_noslash" -> <<"principal,role">>

Assertions == {"A_one", "A_two", "A_norole", "A_single", "A_noslash"}

NoDict == [RoleArn |-> None, PrincipalArn |-> None, SAMLAssertion |-> None]

\* The loops of lines 149-152 leave in arns the text of the last
\* AttributeValue visited; with no Role attribute arns is unbound.
ArnsOf(values) == values[Len(values)]

\* TRUE when get_arns_from_assertion raises (b64decode of None: TypeError;
\* arns unbound: UnboundLocalError; one component: IndexError)
get_arns_faults(a) ==
    \/ a = None
    \/ Len(RoleValues(a)) = 0
    \/ Len(Split(ArnsOf(RoleValues(a)), ",")) < 2

get_arns_from_assertion(a) ==
    LET arns == ArnsOf(RoleValues(a))
    IN  [RoleArn |-> Split(arns, ",")[2],
         PrincipalArn |-> Split(arns, ",")[1],
         SAMLAssertion |-> a]

\* ---- the login form and its payload -------------------------------------
\* payload[name] = ... : a dict assignment, the last one for a name wins
DictSet(d, k, v) == [x \in DOMAIN d \cup {k} |-> IF x = k THEN v ELSE d[x]]

EmptyDict == [x \in {} |-> None]

RECURSIVE BuildPayload(_, _, _, _, _)
BuildPayload(inputs, i, username, password, payload) ==
    IF i > Len(inputs) THEN payload
    ELSE LET name  == Get(inputs[i].name, "")
             value == Get(inputs[i].value, "")
             v == IF Contains("user", Lower(name)) THEN username
                  ELSE IF Contains("pass", Lower(name)) THEN password
                  ELSE value
         IN  BuildPayload(inputs, i + 1, username, password,
                          DictSet(payload, name, v))

Forms ==
    { <<Tag("username", ""), Tag("password", ""), Tag("csrf_token", "abc123")>>,
      <<Tag("UserName", "x"), Tag("PassWord", "y"), Tag("user_pass", "z"),
        Tag(None, "Sign in")>> }

\* ---- the credentials file -------------------------------------------------
\* The file as configparser holds it: the sections in file order, each
\* [name, options] with options a dict option name -> value.
Section(n, opts) == [name |-> n, options |-> opts]

\* config.has_section(profile)
has_section(config, profile) ==
    \E i \in 1..Len(config) : config[i].name = profile

\* config.add_section(profile)
add_section(config, profile) == Append(config, Section(profile, EmptyDict))

\* config.add_section raises ValueError for the default section name
add_section_faults(config, profile) ==
    ~has_section(config, profile) /\ profile = "DEFAULT"

FiveFields == {"output", "region", "aws_access_key_id",
               "aws_secret_access_key", "aws_session_token"}

\* lines 180-184: the five calls of config.set on the options of the
\* section; the other options of the section stay
set_fields(options, access_key, secret_key, token, reg, output) ==
    [k \in DOMAIN options \cup FiveFields |->
        CASE k = "output" -> output
          [] k = "region" -> reg
          [] k = "aws_access_key_id" -> access_key
          [] k = "aws_secret_access_key" -> secret_key
          [] k = "aws_session_token" -> token
          [] OTHER -> options[k]]

\* faulty variant: the existing file is not read in
write_aws_creds_NoRead(file, profile, access_key, secret_key, token, reg, output) ==
    <<Section(profile, set_fields(EmptyDict, access_key, secret_key, token,
                                  reg, output))>>

\* lines 174-187: the file written back from the config read from `file`
write_aws_creds(file, profile, access_key, secret_key, token, reg, output) ==
    LET config == IF ~has_section(file, profile)
                  THEN add_section(file, profile) ELSE file
    IN  [i \in 1..Len(config) |->
            IF config[i].name = profile
            THEN Section(profile,
                         set_fields(config[i].options, access_key,
                                    secret_key, token, reg, output))
            ELSE config[i]]

\* ---- the inputs of a run -------------------------------------------------
\* session identifiers the IdP hands out or the user passes with --sid
Sids == {Rep("s", SidLen)}

\* contents of the cache file before the first run
FileContents == {"", Rep("x", SidLen - 1), Rep("x", SidLen), Rep("x", SidLen + 1)}

InitialSidFiles ==
    {NoFile} \cup
    {[exists |-> TRUE, content |-> c, perms |-> Mode600] : c \in FileContents}
    \cup {[exists |-> TRUE, content |-> Rep("x", SidLen), perms |-> Mode644]}

Args ==
    [sid : {None, Rep("s", SidLen)},
     profile : {None, "saml"},
     username : {"alice"}] \cup
    {[sid |-> None, profile |-> "DEFAULT", username |-> "alice"],
     [sid |-> None, profile |-> None, username |-> None]}

Environs == {None, "bob"}

Passwords == {"", "hunter2"}

\* pages the IdP answers with: the inputs of the HTML body
LoginPage == <<Tag("username", ""), Tag("password", "")>>
SamlPage(a) == <<Tag("RelayState", ""), Tag("SAMLResponse", a)>>

Pages ==
    {LoginPage, <<Tag("SAMLResponse", None)>>} \cup
    {SamlPage(a) : a \in Assertions}

NoResponse == [marker |-> FALSE, inputs |-> <<>>, sid |-> None]

\* a requests.Response: "Sign in failed!" in text, the inputs of the body,
\* the sid cookie (None when the response sets no such cookie)
Responses ==
    [marker : {FALSE}, inputs : Pages, sid : Sids \cup {None}] \cup
    [marker : {TRUE}, inputs : {LoginPage, SamlPage("A_one")},
     sid : {Rep("s", SidLen)}]

Credentials ==
    { [AccessKeyId |-> "AKIA1", SecretAccessKey |-> "secret1",
       SessionToken |-> "token1"],
      [AccessKeyId |-> "AKIA2", SecretAccessKey |-> "secret2",
       SessionToken |-> "token2"] }

NoCreds == [AccessKeyId |-> None, SecretAccessKey |-> None,
            SessionToken |-> None]

InitialCredsFiles ==
    { <<Section("default",
                DictSet(EmptyDict, "aws_access_key_id", "AKIA0"))>> }

NoConfig == <<>>

\* ---- state ----------------------------------------------------------------
VARIABLES
    run,              \* number of the current invocation
    args,             \* parsed command line (line 52)
    sid_file,         \* ~/.okta_sid
    creds_file,       \* ~/.aws/credentials
    pc,               \* position of main()
    sid,              \* main's sid
    cookie_dict,      \* the sid cookie sent by okta_cookie_login
    cookie_response,  \* main's cookie_response
    password,         \* get_user_creds' password, None before the prompt
    user_creds,       \* main's user_creds
    formresponse,     \* input fields of okta_password_login's formresponse
    payload,          \* okta_password_login's payload
    response,         \* okta_password_login's response to the POST
    password_response,\* main's password_response['sid']
    assertion,        \* main's assertion
    saml_dict,        \* main's saml_dict
    aws_creds,        \* main's aws_creds
    profile_name,     \* main's profile_name
    config,           \* write_aws_creds' config as read in (line 175)
    exit_code,        \* exit status of the process, -1 while it runs
    stdout,           \* messages printed
    trace,            \* external operations of this run, in order
    prev,             \* the sid the previous run cached, None if it cached none
    invocations       \* concurrent invocations inside write_aws_creds

vars == <<run, args, sid_file, creds_file, pc, sid,
          cookie_dict, cookie_response, password, user_creds, formresponse,
          payload, response, password_response, assertion, saml_dict, aws_creds, profile_name,
          config, exit_code, stdout, trace, prev, invocations>>

files == <<sid_file, creds_file>>
givens == <<run, args, prev, invocations>>

NoUserCreds == [username |-> None, password |-> None]

\* one process runs at a time
NoInvocations == <<>>

Fresh ==
    /\ pc = "Start"
    /\ sid = None
    /\ cookie_dict = None
    /\ cookie_response = NoResponse
    /\ password = None
    /\ user_creds = NoUserCreds
    /\ formresponse = <<>>
    /\ payload = EmptyDict
    /\ response = NoResponse
    /\ password_response = None
    /\ assertion = None
    /\ saml_dict = NoDict
    /\ aws_creds = NoCreds
    /\ profile_name = None
    /\ config = NoConfig
    /\ exit_code = -1
    /\ stdout = <<>>
    /\ trace = <<>>

Init ==
    /\ run = 1
    /\ args \in Args
    /\ sid_file \in InitialSidFiles
    /\ creds_file \in InitialCredsFiles
    /\ prev = None
    /\ invocations = NoInvocations
    /\ Fresh

\* ---- main() ----------------------------------------------------------------
\* faulty variant: the session is not cached
cache_sid_Off == FALSE

\* cache_sid = True (line 243)
cache_sid == TRUE

Terminated == pc \in {"Done", "Exit", "Fault"}

\* sys.exit(1) after print(msg)
Exit1(msg) ==
    /\ stdout' = Append(stdout, msg)
    /\ pc' = "Exit"
    /\ exit_code' = 1

\* an uncaught exception: traceback, exit status 1
Raise ==
    /\ pc' = "Fault"
    /\ exit_code' = 1

\* faulty variant: the failure marker is never recognised
sign_in_failed_Never(r) == FALSE

\* line 98: "Sign in failed!" in response.text
sign_in_failed(r) == r.marker

\* faulty variant: the empty password is let through
password_empty_Never(pw) == FALSE

\* line 205: len(password) == 0
password_empty(pw) == Len(pw) = 0

\* faulty variant: a missing assertion is not noticed
assertion_missing_Never(a) == FALSE

\* lines 261 and 283: assertion is None
assertion_missing(a) == a = None

\* lines 249-257
Start ==
    /\ pc = "Start"
    /\ LET fromfile == args.sid = None /\ cache_sid
           s == IF fromfile THEN get_sid_from_file(sid_file) ELSE args.sid
       IN  /\ sid' = s
           /\ trace' = IF fromfile THEN Append(trace, "get_sid_from_file")
                       ELSE trace
           /\ pc' = IF s # None THEN "TryCachedSession" ELSE "GetUserCreds"
    /\ UNCHANGED <<givens, config, formresponse, files, cookie_dict,
                   cookie_response, password, user_creds,
                   payload, response, password_response, assertion,
                   saml_dict, aws_creds, profile_name, exit_code, stdout>>

\* lines 258-261, okta_cookie_login and get_saml_assertion
OktaCookieLogin ==
    /\ pc = "TryCachedSession"
    /\ cookie_dict' = sid
    /\ trace' = Append(trace, "okta_cookie_login")
    /\ \/ \E page \in Pages :
            /\ cookie_response' = [marker |-> FALSE, inputs |-> page,
                                   sid |-> None]
            /\ assertion' = get_saml_assertion(page)
            /\ pc' = IF assertion_missing(assertion') THEN "GetUserCreds"
                     ELSE "HaveAssertion"
            /\ UNCHANGED exit_code
       \/ \* session.get raises (transport error)
          /\ Raise
          /\ UNCHANGED <<cookie_response, assertion>>
    /\ UNCHANGED <<givens, config, formresponse, files, sid, password,
                   user_creds, payload, response,
                   password_response, saml_dict, aws_creds, profile_name,
                   stdout>>

\* get_user_creds, lines 189-212
GetUserCreds ==
    /\ pc = "GetUserCreds"
    /\ \E environ \in Environs :   \* os.environ.get("OKTA_USERNAME")
       IF args.username = None /\ environ = None
       THEN \* print("Username: "); raw_input() raises NameError
            /\ stdout' = Append(stdout, "Username: ")
            /\ Raise
            /\ UNCHANGED <<password, user_creds, trace>>
       ELSE LET username == IF args.username # None THEN args.username
                            ELSE environ
            IN  \E pw \in Passwords :   \* getpass.getpass
                  /\ trace' = Append(trace, "getpass")
                  /\ password' = pw
                  /\ IF password_empty(pw)
                     THEN /\ Exit1("Password must be provided")
                          /\ UNCHANGED user_creds
                     ELSE /\ user_creds' = [username |-> username,
                                            password |-> pw]
                          /\ pc' = "PasswordLogin"
                          /\ UNCHANGED <<exit_code, stdout>>
    /\ UNCHANGED <<givens, config, formresponse, files, sid, cookie_dict,
                   cookie_response, payload,
                   response, password_response, assertion, saml_dict,
                   aws_creds, profile_name>>

\* okta_password_login (lines 56-105) and lines 266-270 / 277-281 of main
OktaPasswordLogin ==
    /\ pc = "PasswordLogin"
    /\ \/ \* session.get of the login form raises
          /\ trace' = Append(trace, "session.get")
          /\ Raise
          /\ UNCHANGED <<formresponse, payload, response,
                         password_response, assertion, sid_file, stdout>>
       \/ \E form \in Forms :
            /\ formresponse' = form
            /\ payload' = BuildPayload(form, 1, user_creds.username,
                                       user_creds.password, EmptyDict)
            /\ \/ \* session.post raises
                  /\ trace' = trace \o <<"session.get", "session.post">>
                  /\ Raise
                  /\ UNCHANGED <<response, password_response, assertion,
                                 sid_file, stdout>>
               \/ \E r \in Responses :
                    /\ response' = r
                    /\ IF sign_in_failed(r)
                       THEN /\ trace' = trace \o <<"session.get",
                                                   "session.post">>
                            /\ Exit1("Sign in failed!")
                            /\ UNCHANGED <<password_response, assertion,
                                           sid_file>>
                       ELSE IF r.sid = None
                       THEN \* response.cookies['sid'] raises KeyError
                            /\ trace' = trace \o <<"session.get",
                                                   "session.post">>
                            /\ Raise
                            /\ UNCHANGED <<password_response, assertion,
                                           sid_file, stdout>>
                       ELSE /\ password_response' = r.sid
                            /\ assertion' = get_saml_assertion(r.inputs)
                            /\ IF cache_sid
                               THEN /\ \E umask \in Umasks :
                                         sid_file' = write_sid_file(
                                             sid_file, r.sid, umask)
                                    /\ trace' = trace \o
                                         <<"session.get", "session.post",
                                           "login_returned", "write_sid_file">>
                               ELSE /\ UNCHANGED sid_file
                                    /\ trace' = trace \o
                                         <<"session.get", "session.post",
                                           "login_returned">>
                            /\ pc' = IF assertion_missing(assertion')
                                     THEN "Failed" ELSE "HaveAssertion"
                            /\ UNCHANGED <<exit_code, stdout>>
    /\ UNCHANGED <<givens, config, creds_file, sid, cookie_dict,
                   cookie_response,
                   password, user_creds, saml_dict, aws_creds, profile_name>>

\* lines 283-285
NoAssertion ==
    /\ pc = "Failed"
    /\ Exit1("No valid SAML assertion retrieved!")
    /\ UNCHANGED <<givens, config, formresponse, files, sid, cookie_dict,
                   cookie_response,
                   password, user_creds, payload, response, password_response,
                   assertion, saml_dict, aws_creds, profile_name, trace>>

\* faulty variant: a malformed assertion is reported and the run exits
GetArns_Handled ==
    /\ pc = "HaveAssertion"
    /\ IF get_arns_faults(assertion)
       THEN /\ Exit1("malformed assertion")
            /\ UNCHANGED saml_dict
       ELSE /\ saml_dict' = get_arns_from_assertion(assertion)
            /\ pc' = "Exchange"
            /\ UNCHANGED <<exit_code, stdout>>
    /\ UNCHANGED <<givens, config, formresponse, files, sid, cookie_dict,
                   cookie_response, password, user_creds, payload, response,
                   password_response, assertion, aws_creds, profile_name,
                   trace>>

\* line 287
GetArns ==
    /\ pc = "HaveAssertion"
    /\ IF get_arns_faults(assertion)
       THEN /\ Raise
            /\ UNCHANGED saml_dict
       ELSE /\ saml_dict' = get_arns_from_assertion(assertion)
            /\ pc' = "Exchange"
            /\ UNCHANGED exit_code
    /\ UNCHANGED <<givens, config, formresponse, files, sid, cookie_dict,
                   cookie_response,
                   password, user_creds, payload, response, password_response,
                   assertion, aws_creds, profile_name, stdout, trace>>

\* faulty variant: a failed exchange is tried again
GetStsToken_Retries ==
    /\ pc = "Exchange"
    /\ trace' = Append(trace, "assume_role_with_saml")
    /\ \/ \E c \in Credentials :
            /\ aws_creds' = c
            /\ pc' = "WriteProfile"
       \/ UNCHANGED <<aws_creds, pc>>
    /\ UNCHANGED <<givens, config, formresponse, files, sid, cookie_dict,
                   cookie_response, password, user_creds, payload, response,
                   password_response, assertion, saml_dict, profile_name,
                   exit_code, stdout>>

\* get_sts_token, lines 160-168 and 288-290
GetStsToken ==
    /\ pc = "Exchange"
    /\ trace' = Append(trace, "assume_role_with_saml")
    /\ \/ \E c \in Credentials :
            /\ aws_creds' = c
            /\ pc' = "WriteProfile"
            /\ UNCHANGED exit_code
       \/ \* the exchange call raises
          /\ Raise
          /\ UNCHANGED aws_creds
    /\ UNCHANGED <<givens, config, formresponse, files, sid, cookie_dict,
                   cookie_response,
                   password, user_creds, payload, response, password_response,
                   assertion, saml_dict, profile_name, stdout>>

\* faulty variant: --profile is not looked at
ProfileName_RoleOnly(profile, RoleArn) == Split(RoleArn, "/")[2]

\* lines 293-297: main's profile_name
ProfileName(profile, RoleArn) ==
    IF profile # None THEN profile ELSE Split(RoleArn, "/")[2]

\* lines 293-304, write_aws_creds
WriteProfile ==
    /\ pc = "WriteProfile"
    /\ IF args.profile = None /\ Len(Split(saml_dict.RoleArn, "/")) < 2
       THEN \* saml_dict['RoleArn'].split('/')[1] raises IndexError
            /\ Raise
            /\ UNCHANGED <<creds_file, profile_name, config, trace>>
       ELSE LET name == ProfileName(args.profile, saml_dict.RoleArn)
            IN  /\ profile_name' = name
                /\ trace' = Append(trace, "write_aws_creds")
                /\ config' = creds_file
                /\ IF add_section_faults(creds_file, name)
                   THEN /\ Raise
                        /\ UNCHANGED creds_file
                   ELSE /\ creds_file' = write_aws_creds(
                               creds_file, name, aws_creds.AccessKeyId,
                               aws_creds.SecretAccessKey,
                               aws_creds.SessionToken, region, output_format)
                        /\ pc' = "Done"
                        /\ exit_code' = 0
    /\ UNCHANGED <<givens, formresponse, sid_file, sid, cookie_dict,
                   cookie_response, password, user_creds, payload, response,
                   password_response, assertion, saml_dict, aws_creds, stdout>>

\* the process has ended; the tool is invoked again on the same files
NewRun ==
    /\ Terminated
    /\ run < MaxRuns
    /\ run' = run + 1
    /\ args' \in Args
    /\ prev' = IF \E i \in 1..Len(trace) : trace[i] = "write_sid_file"
               THEN password_response ELSE None
    /\ pc' = "Start"
    /\ sid' = None
    /\ cookie_dict' = None
    /\ cookie_response' = NoResponse
    /\ password' = None
    /\ user_creds' = NoUserCreds
    /\ formresponse' = <<>>
    /\ payload' = EmptyDict
    /\ response' = NoResponse
    /\ password_response' = None
    /\ assertion' = None
    /\ saml_dict' = NoDict
    /\ aws_creds' = NoCreds
    /\ profile_name' = None
    /\ config' = NoConfig
    /\ exit_code' = -1
    /\ stdout' = <<>>
    /\ trace' = <<>>
    /\ UNCHANGED <<files, invocations>>

Next ==
    \/ Start
    \/ OktaCookieLogin
    \/ GetUserCreds
    \/ OktaPasswordLogin
    \/ NoAssertion
    \/ GetArns
    \/ GetStsToken
    \/ WriteProfile
    \/ NewRun

Spec == Init /\ [][Next]_vars

\* the steps of one run of main
RunStep ==
    \/ Start
    \/ OktaCookieLogin
    \/ GetUserCreds
    \/ OktaPasswordLogin
    \/ NoAssertion
    \/ GetArns
    \/ GetStsToken
    \/ WriteProfile

\* One run of main in which every call returns or raises: the prompt is
\* answered, the requests have an end.
FairSpec == Init /\ [][RunStep]_vars /\ WF_vars(RunStep)

\* ---- invocations running at the same time ----------------------------------
\* Each invocation has reached the call of write_aws_creds (line 298) with
\* its profile name and the credentials of its exchange; nothing locks the
\* file, so the steps of the calls interleave.
Invokers == 1..NumInvocations

ProfileNames == {"saml", "Y", "Z", "DEFAULT"}

Calling(name, creds) ==
    [pc |-> "ReadConfig", profile |-> name, creds |-> creds,
     config |-> NoConfig]

ConcurrentInit ==
    /\ run = 1
    /\ args = [sid |-> None, profile |-> None, username |-> None]
    /\ sid_file = NoFile
    /\ creds_file \in InitialCredsFiles
    /\ prev = None
    /\ Fresh
    /\ \E names \in [Invokers -> ProfileNames] :
       \E creds \in [Invokers -> Credentials] :
          /\ \A p, q \in Invokers : names[p] = names[q] => p = q
          /\ invocations = [p \in Invokers |-> Calling(names[p], creds[p])]

\* line 175: config.read(aws_config_file)
ReadConfig(p) ==
    /\ invocations[p].pc = "ReadConfig"
    /\ invocations' = [invocations EXCEPT ![p].config = creds_file,
                                          ![p].pc = "OpenFile"]
    /\ UNCHANGED creds_file

\* lines 178-179 and line 186: has_section, add_section, then
\* open(aws_config_file, 'w+'), which empties the file
OpenFile(p) ==
    /\ invocations[p].pc = "OpenFile"
    /\ IF add_section_faults(invocations[p].config, invocations[p].profile)
       THEN /\ invocations' = [invocations EXCEPT ![p].pc = "Fault"]
            /\ UNCHANGED creds_file
       ELSE /\ creds_file' = <<>>
            /\ invocations' = [invocations EXCEPT ![p].pc = "WriteFile"]

\* line 187 and the end of the with block: config.write(configfile)
WriteFile(p) ==
    /\ invocations[p].pc = "WriteFile"
    /\ creds_file' = write_aws_creds(
            invocations[p].config, invocations[p].profile,
            invocations[p].creds.AccessKeyId,
            invocations[p].creds.SecretAccessKey,
            invocations[p].creds.SessionToken, region, output_format)
    /\ invocations' = [invocations EXCEPT ![p].pc = "Done"]

main_vars == <<run, args, sid_file, pc, sid, cookie_dict, cookie_response,
               password, user_creds, formresponse, payload, response,
               password_response, assertion, saml_dict, aws_creds,
               profile_name, config, exit_code, stdout, trace, prev>>

ConcurrentNext ==
    \/ \E p \in Invokers : ReadConfig(p) /\ UNCHANGED main_vars
    \/ \E p \in Invokers : OpenFile(p) /\ UNCHANGED main_vars
    \/ \E p \in Invokers : WriteFile(p) /\ UNCHANGED main_vars

ConcurrentSpec == ConcurrentInit /\ [][ConcurrentNext]_vars

TypeOK ==
    /\ run \in 1..MaxRuns
    /\ exit_code \in {-1, 0, 1}

\* ---- observations ----------------------------------------------------------
Has(e) == \E i \in 1..Len(trace) : trace[i] = e

\* the page carries an input field named SAMLResponse
HasField(page) == \E i \in 1..Len(page) : page[i].name = "SAMLResponse"

\* the requests sent to the IdP in this run, in order
IdpRequests ==
    SelectSeq(trace, LAMBDA e : e \in {"okta_cookie_login", "session.get",
                                       "session.post"})

CookieReturned == cookie_response # NoResponse
PostReturned == response # NoResponse

\* the cache file held a usable identifier (the condition of lines 218-222)
CacheUsable == sid_file.exists /\ Len(sid_file.content) = SidLen

\* ---- C1 ---------------------------------------------------------------------
\* C1: the cookie login is attempted if and only if --sid was supplied or the
\* cache file exists with content of exactly 25 characters (decided by the
\* step that leaves Start); otherwise the first IdP request of the run is the
\* password login and no cookie-login request is issued; with --sid the cache
\* file is not read.
C1_CookieLoginIff ==
    /\ [][(pc = "Start" /\ pc' # "Start") =>
            /\ (pc' = "TryCachedSession") <=> (args.sid # None \/ CacheUsable)
            /\ pc' \in {"TryCachedSession", "GetUserCreds"}
            /\ (pc' = "GetUserCreds") <=> (sid' = None)]_vars
    /\ [][(pc # "Start" /\ run' = run) => sid' = sid]_vars
    /\ [](pc \notin {"Start", "TryCachedSession"} =>
            (Has("okta_cookie_login") <=> sid # None))
    /\ [](pc \in {"Start", "TryCachedSession"} => IdpRequests = <<>>)
    /\ []((sid = None /\ IdpRequests # <<>>) =>
            /\ IdpRequests[1] = "session.get"
            /\ ~Has("okta_cookie_login"))
    /\ [](args.sid # None => ~Has("get_sid_from_file"))

\* a run without --sid found a usable cache file and sent the cookie login
C1_Witness ==
    /\ args.sid = None
    /\ Has("get_sid_from_file")
    /\ Has("okta_cookie_login")
    /\ cookie_dict = Rep("x", SidLen)

\* ---- C2 ---------------------------------------------------------------------
\* the page carries a SAMLResponse field, and each such field has a value
HasValue(page) ==
    /\ HasField(page)
    /\ \A i \in 1..Len(page) :
          page[i].name = "SAMLResponse" => page[i].value # None

CookieFellBack == CookieReturned /\ ~HasField(cookie_response.inputs)

LoginSucceeded ==
    /\ PostReturned
    /\ ~response.marker
    /\ response.sid # None

\* C3: the cache file is written only after a password login that succeeded
\* (the POST came back without the failure marker and with a sid cookie), and
\* a run that takes its assertion from the cookie login never writes it.
C3_CacheOnlyAfterLogin ==
    /\ [](Has("write_sid_file") =>
            /\ LoginSucceeded
            /\ \E i, j \in 1..Len(trace) :
                  /\ i < j
                  /\ trace[i] = "session.post"
                  /\ trace[j] = "write_sid_file")
    /\ []((CookieReturned /\ HasValue(cookie_response.inputs)) =>
            ~Has("write_sid_file"))
    /\ [][sid_file' # sid_file =>
            /\ pc = "PasswordLogin"
            /\ response' # NoResponse
            /\ ~response'.marker
            /\ response'.sid # None]_vars

\* a successful password login changed the cache file
C3_Witness ==
    /\ Has("write_sid_file")
    /\ LoginSucceeded
    /\ sid_file.content = Rep("s", SidLen)

\* ---- C4 ---------------------------------------------------------------------
\* C4: after write_sid_file(path, id) the content of the cache file is exactly
\* id, whatever the file held before.
C4_ContentIsId ==
    Has("write_sid_file") => sid_file.content = password_response

\* ---- C5 ---------------------------------------------------------------------
\* C5: after write_sid_file(path, id) the permission bits of the cache file
\* allow access to the owner only, for a created and for an existing file.
C5_OwnerOnly ==
    Has("write_sid_file") => (sid_file.exists /\ sid_file.perms \subseteq OwnerBits)

\* ---- C6 ---------------------------------------------------------------------
\* C6: when a run cached the 25-character identifier S returned by its
\* password login, the next run started without --sid reads S from the cache
\* and sends its cookie login with S.
C6_NextRunUsesCached ==
    (run > 1 /\ prev # None /\ Len(prev) = SidLen /\ args.sid = None
       /\ pc # "Start") =>
        /\ sid = prev
        /\ pc # "TryCachedSession" => cookie_dict = prev

\* ---- C7 ---------------------------------------------------------------------
\* C7: get_sid_from_file returns the content of the file if and only if the
\* file exists with content of exactly 25 characters; otherwise it returns
\* nothing and raises no error.
C7_ReadOnlyLength25 ==
    [][(pc = "Start" /\ pc' # "Start" /\ args.sid = None) =>
          /\ pc' # "Fault"
          /\ exit_code' = -1
          /\ IF sid_file.exists /\ Len(sid_file.content) = SidLen
             THEN sid' = sid_file.content
             ELSE sid' = None]_vars

\* the cache file held 26 characters and the read returned nothing
C7_Witness ==
    /\ Has("get_sid_from_file")
    /\ sid = None
    /\ sid_file.exists
    /\ Len(sid_file.content) = SidLen + 1
    /\ pc = "GetUserCreds"

\* ---- C8 ---------------------------------------------------------------------
\* C8: a password-login response carrying the failure marker ends the process
\* with exit code 1 at once: no cache write, no exchange, no profile write,
\* also when the body carries a SAMLResponse field.
C8_SignInFailedIsFatal ==
    /\ []((PostReturned /\ response.marker) =>
            /\ pc = "Exit"
            /\ exit_code = 1
            /\ ~Has("write_sid_file")
            /\ ~Has("assume_role_with_saml")
            /\ ~Has("write_aws_creds"))
    /\ [][(response' # NoResponse /\ response'.marker) =>
            (sid_file' = sid_file /\ creds_file' = creds_file)]_vars

\* the marker and a SAMLResponse field in the same response
C8_Witness ==
    /\ PostReturned
    /\ response.marker
    /\ HasValue(response.inputs)
    /\ pc = "Exit"

\* ---- C9 ---------------------------------------------------------------------
\* C9: an empty password ends the process with exit code 1 before any
\* password-login request is sent, and neither file is written in that run,
\* on the direct path and on the fallback path.
C9_EmptyPasswordIsFatal ==
    /\ [](password = "" =>
            /\ pc = "Exit"
            /\ exit_code = 1
            /\ ~Has("session.get")
            /\ ~Has("session.post")
            /\ ~Has("write_sid_file")
            /\ ~Has("write_aws_creds"))
    /\ [][password' = "" =>
            (sid_file' = sid_file /\ creds_file' = creds_file)]_vars

\* an empty password on the fallback path
C9_Witness ==
    /\ password = ""
    /\ CookieFellBack
    /\ pc = "Exit"

\* ---- C10 --------------------------------------------------------------------
\* C10: when the page returned by the password login carries no SAMLResponse
\* field, the run exits with code 1 without calling the exchange or writing a
\* profile; a login that returned to main does so through Failed (lines
\* 283-285, with the diagnostic).
C10_NoAssertionIsFatal ==
    /\ []((PostReturned /\ ~HasField(response.inputs)) =>
            /\ pc \in {"Failed", "Exit", "Fault"}
            /\ Terminated => exit_code = 1
            /\ ~Has("assume_role_with_saml")
            /\ ~Has("write_aws_creds")
            /\ LoginSucceeded =>
                  /\ pc \in {"Failed", "Exit"}
                  /\ pc = "Exit" =>
                        stdout = <<"No valid SAML assertion retrieved!">>)
    /\ [][(response' # NoResponse /\ ~HasField(response'.inputs)) =>
            creds_file' = creds_file]_vars

\* no assertion from the cookie login nor from the password login
C10_Witness ==
    /\ CookieFellBack
    /\ LoginSucceeded
    /\ ~HasField(response.inputs)
    /\ pc = "Exit"
    /\ exit_code = 1

\* ---------------------------------------------------------------------
\* Observations on the credentials file

\* the positions of the sections of that name
SectionsNamed(file, n) == {i \in 1..Len(file) : file[i].name = n}

\* the value write_aws_creds is handed for one of its five fields
FieldValue(k) ==
    CASE k = "output" -> output_format
      [] k = "region" -> region
      [] k = "aws_access_key_id" -> aws_creds.AccessKeyId
      [] k = "aws_secret_access_key" -> aws_creds.SecretAccessKey
      [] k = "aws_session_token" -> aws_creds.SessionToken

\* the section `n` of `after` holds the five fields of this call and, of
\* `before`, every other field of that section
SectionUpdated(before, after, n) ==
    /\ Cardinality(SectionsNamed(after, n)) = 1
    /\ \A i \in SectionsNamed(after, n) :
          LET old == IF has_section(before, n)
                     THEN before[CHOOSE j \in SectionsNamed(before, n) : TRUE]
                              .options
                     ELSE EmptyDict
              new == after[i].options
          IN  /\ DOMAIN new = DOMAIN old \cup FiveFields
              /\ \A k \in FiveFields : new[k] = FieldValue(k)
              /\ \A k \in DOMAIN old \ FiveFields : new[k] = old[k]

\* every section of another name is in `after` what it was in `before`
OthersUnchanged(before, after, n) ==
    SelectSeq(after, LAMBDA sec : sec.name # n) =
    SelectSeq(before, LAMBDA sec : sec.name # n)

\* write_aws_creds was called in this run and the run is over
ProfileCallEnded == Has("write_aws_creds") /\ Terminated

C12_FirstRoleValue ==
    saml_dict # NoDict =>
        LET first == Split(RoleValues(assertion)[1], ",")
        IN  /\ saml_dict.PrincipalArn = first[1]
            /\ saml_dict.RoleArn = first[2]

C13_WitnessGiven ==
    /\ pc = "Done"
    /\ args.profile = "saml"
    /\ has_section(creds_file, "saml")
    /\ ~has_section(creds_file, "Y")

\* ---------------------------------------------------------------------
\* C14: in the payload built by okta_password_login every input field
\* whose name contains "user", in any letter case, carries the username,
\* every field whose name contains "pass" carries the password, and every
\* other field keeps its value.
C14_PayloadByName ==
    \A i \in 1..Len(formresponse) :
        LET name == Get(formresponse[i].name, "")
            value == Get(formresponse[i].value, "")
            isUser == Contains("user", Lower(name))
            isPass == Contains("pass", Lower(name))
        IN  /\ isUser => payload[name] = user_creds.username
            /\ isPass => payload[name] = user_creds.password
            /\ ~isUser /\ ~isPass => payload[name] = value

\* ---------------------------------------------------------------------
\* how often the operation was called in this run
Count(e) == Cardinality({i \in 1..Len(trace) : trace[i] = e})

\* the order of exchange, profile write and Done, seen in a state
ExchangeWriteOrder ==
    /\ Count("assume_role_with_saml") <= 1
    /\ Has("assume_role_with_saml") =>
          /\ assertion # None
          /\ saml_dict = get_arns_from_assertion(assertion)
    /\ aws_creds # NoCreds => Has("assume_role_with_saml")
    /\ Count("write_aws_creds") <= 1
    /\ Has("write_aws_creds") =>
          /\ aws_creds \in Credentials
          /\ trace[Len(trace)] = "write_aws_creds"
          /\ trace[Len(trace) - 1] = "assume_role_with_saml"
    /\ pc = "Done" =>
          /\ Count("write_aws_creds") = 1
          /\ has_section(creds_file, profile_name)

\* a step that changes the credentials file is the one profile write, taken
\* with the credentials the exchange returned, and ends in Done
WriteStep ==
    creds_file' # creds_file =>
        /\ pc = "WriteProfile"
        /\ aws_creds \in Credentials
        /\ ~Has("write_aws_creds")
        /\ pc' = "Done"

\* C15: the token exchange is called at most once and only after an
\* assertion was extracted and decoded; the credentials file is written at
\* most once and only after the exchange returned credentials; the run is
\* Done only after that one profile write.
C15_ExchangeThenWriteThenDone ==
    /\ []ExchangeWriteOrder
    /\ [][WriteStep]_vars

C15_Witness ==
    /\ pc = "Done"
    /\ Count("assume_role_with_saml") = 1
    /\ Count("write_aws_creds") = 1
    /\ creds_file # config

\* ---------------------------------------------------------------------
\* the decoded assertion has no role attribute, or the role value read
\* has fewer than two comma components
Malformed(a) ==
    \/ Len(RoleValues(a)) = 0
    \/ Len(Split(RoleValues(a)[Len(RoleValues(a))], ",")) < 2

\* C16: when the decoded assertion has no role attribute, or its value has
\* fewer than two comma components, get_arns_from_assertion raises an
\* uncaught fault: the run ends with it, without a token exchange and
\* without a profile write.
C16_MalformedAssertionFaults ==
    (assertion # None /\ Malformed(assertion)) =>
        /\ pc \in {"HaveAssertion", "Fault"}
        /\ pc = "Fault" => exit_code = 1
        /\ saml_dict = NoDict
        /\ ~Has("assume_role_with_saml")
        /\ ~Has("write_aws_creds")
        /\ config = NoConfig

C16_Witness ==
    /\ assertion = "A_single"
    /\ pc = "Fault"
    /\ ~Has("assume_role_with_saml")

C16_WitnessNoRole ==
    /\ assertion = "A_norole"
    /\ pc = "Fault"
    /\ ~Has("write_aws_creds")

\* ---------------------------------------------------------------------
AllDone == \A p \in Invokers : invocations[p].pc = "Done"

\* the file is what invocation p made of the file it had read: p's section
\* with p's credentials, every other section as p read it
MadeBy(p) ==
    LET inv == invocations[p]
        mine == SectionsNamed(creds_file, inv.profile)
    IN  /\ Cardinality(mine) = 1
        /\ \A i \in mine :
              /\ DOMAIN creds_file[i].options = FiveFields
              /\ creds_file[i].options["aws_access_key_id"] =
                     inv.creds.AccessKeyId
              /\ creds_file[i].options["aws_secret_access_key"] =
                     inv.creds.SecretAccessKey
              /\ creds_file[i].options["aws_session_token"] =
                     inv.creds.SessionToken
        /\ OthersUnchanged(inv.config, creds_file, inv.profile)

\* C17: concurrent invocations that write different profile names to the
\* same credentials file all finish in Done, and the file is then what one
\* of them made of the file it had read, whatever the others wrote in
\* between: a profile written by another invocation after that read is
\* lost.
C17_LastWriterWins ==
    AllDone => \E p \in Invokers : MadeBy(p)

\* both invocations are Done and the file holds only one of the two profiles
C17_Witness ==
    /\ AllDone
    /\ has_section(creds_file, invocations[1].profile)
    /\ ~has_section(creds_file, invocations[2].profile)

\* ---------------------------------------------------------------------
\* no request of the run was made twice
NoRetry ==
    /\ Count("get_sid_from_file") <= 1
    /\ Count("okta_cookie_login") <= 1
    /\ Count("getpass") <= 1
    /\ Count("session.get") <= 1
    /\ Count("session.post") <= 1
    /\ Count("assume_role_with_saml") <= 1
    /\ Count("write_aws_creds") <= 1

\* C18: no request is retried: a run makes at most one cookie-login
\* request, one password prompt, one password login and one token exchange;
\* and as every external call returns, the run always terminates, in Done
\* or with a fatal exit.
C18_NoRetryAndTerminates ==
    /\ []NoRetry
    /\ ~Terminated ~> Terminated
    /\ [](Terminated => /\ pc = "Done" <=> exit_code = 0
                        /\ pc \in {"Exit", "Fault"} <=> exit_code = 1)

\* a run that made each of its requests once is Done
C18_Witness ==
    /\ pc = "Done"
    /\ Count("okta_cookie_login") = 1
    /\ Count("getpass") = 1
    /\ Count("session.post") = 1
    /\ Count("assume_role_with_saml") = 1

\* ---------------------------------------------------------------------
\* the value of the SAMLResponse field of the page
FieldOf(page) ==
    page[CHOOSE i \in 1..Len(page) : page[i].name = "SAMLResponse"].value

\* the run took the assertion of the cookie-login page and went on with it
WentStraightOn ==
    /\ pc \in {"HaveAssertion", "Exchange", "WriteProfile", "Done", "Fault"}
    /\ ~Has("getpass")
    /\ password = None
    /\ user_creds = NoUserCreds
    /\ ~Has("session.get")
    /\ ~Has("session.post")
    /\ ~Has("write_sid_file")
    /\ stdout = <<>>
    /\ assertion = FieldOf(cookie_response.inputs)
    /\ Has("assume_role_with_saml") =>
          saml_dict.SAMLAssertion = FieldOf(cookie_response.inputs)

\* C19 as stated: a run whose cookie login returns a page carrying a
\* SAMLResponse field goes straight to HaveAssertion: no password prompt,
\* no password-login request, and the assertion passed to the exchange is
\* the one from the cookie-login page.
C19_CookieAssertionUsed ==
    (CookieReturned /\ HasField(cookie_response.inputs)) => WentStraightOn

\* C19: a run whose cookie login returns a page carrying a SAMLResponse
\* field that has a value goes straight to HaveAssertion, without password
\* prompt and password login, and hands that value to the exchange; when
\* the field has no value attribute the run falls back to the password
\* login as if there were no field.
C19_CookieAssertionAmended ==
    CookieReturned =>
        /\ HasValue(cookie_response.inputs) => WentStraightOn
        /\ (/\ HasField(cookie_response.inputs)
            /\ ~HasValue(cookie_response.inputs)) =>
               /\ pc \notin {"HaveAssertion", "Exchange", "WriteProfile",
                             "Done"} \/ PostReturned
               /\ pc = "GetUserCreds" \/ stdout # <<>> \/ Has("getpass")

\* the exchange was called with the assertion of the cookie-login page
C19_Witness ==
    /\ CookieReturned
    /\ HasValue(cookie_response.inputs)
    /\ Has("assume_role_with_saml")
    /\ saml_dict.SAMLAssertion = "A_two"
    /\ pc = "Done"

\* ---------------------------------------------------------------------
\* C20: when the password login returns without the failure marker but its
\* page carries no SAMLResponse field, the sid of that response is still
\* written to the cache file before the run exits with code 1: a Failed run
\* can leave a changed session cache.
C20_FailedRunCachesSid ==
    (LoginSucceeded /\ ~HasField(response.inputs)) =>
        /\ pc \in {"Failed", "Exit"}
        /\ Has("write_sid_file")
        /\ sid_file.exists
        /\ SubSeq(sid_file.content, 1, Len(response.sid)) = response.sid
        /\ pc = "Exit" =>
              /\ exit_code = 1
              /\ stdout[Len(stdout)] = "No valid SAML assertion retrieved!"
              /\ trace[Len(trace)] = "write_sid_file"

\* the run has exited with code 1 and the cache, which held no identifier
\* of this kind before, holds the sid of the failed run
C20_Witness ==
    /\ LoginSucceeded
    /\ ~HasField(response.inputs)
    /\ pc = "Exit"
    /\ exit_code = 1
    /\ run = 1
    /\ sid_file.content = response.sid

====
